---- MODULE Spec2Model ----
(***************************************************************************)
(* Model of rust_execution/src/lib.rs: the RustExecutionEngine (an order-  *)
(* id counter and four latency statistics, all AtomicU64 updated with      *)
(* Relaxed atomics), execute_batch and benchmark_latency.                  *)
(*                                                                         *)
(* Callers are the processes of Procs.  Every atomic operation of the      *)
(* code (fetch_add, load, store, compare_exchange_weak) is one step; the   *)
(* local computation between two atomic operations is folded into the      *)
(* step of the atomic operation that follows it.  A spurious failure of    *)
(* compare_exchange_weak leaves every variable unchanged (Err(x) returns   *)
(* the value the caller already holds), so it is a stuttering step.        *)
(*                                                                         *)
(* Numbers: f64 prices and quantities are modelled by integers that are    *)
(* only copied and compared; slippage is in units of 0.0001.  u64 values   *)
(* stay far below 2^64 within the bounds, so no wrap-around is modelled.   *)
(***************************************************************************)
EXTENDS Integers, Sequences, FiniteSets, Bags, TLC

\* ------------------------------------------------------------------ bounds
NumProcs == 2         \* concurrent callers
MaxCalls == 2         \* calls issued in Spec
MaxLiveCalls == 2     \* calls issued in SpecLive
MaxResetCalls == 3    \* calls issued in SpecReset
MaxEngineCalls == 2   \* calls issued in SpecEngines
MaxBenchCalls == 1    \* benchmark_latency calls issued in SpecBench
MaxBatchOrders == 3   \* execute_order calls issued in SpecBatch
MaxFillOrders == 2    \* execute_order calls issued in SpecFill
MaxLatency == 1       \* largest latency the clock measures, in ns
MaxBatch == 2         \* longest argument of execute_batch
MaxIterations == 3    \* largest argument of benchmark_latency

Procs == 1..NumProcs

\* What start.elapsed() may measure.
Latencies == 0..MaxLatency

\* One measurement, for the callers whose latencies do not matter.
OneLatency == {1}

\* Two measurements, the fewest that make a compare-exchange fail and the
\* loop go round again; both above 0, the maximum of a new or reset engine.
TwoLatencies == {1, 2}

\* The classes of the u8 arguments the code tells apart (side == 0,
\* order_type == 1) and two values of each f64 argument.
Sides == {0, 1, 2}
OrderTypes == {0, 1, 2}
Prices == {1, 2}
Quantities == {3, 4}

\* u64::MAX, the sentinel of min_latency_ns.  It is only stored, loaded and
\* compared, never used in arithmetic; the model uses the largest integer
\* of the checker in its place.
U64_MAX == 2147483647

\* The argument tuple (symbol_id, side, order_type, price, quantity) of
\* execute_order.
AllOrders ==
  [symbol_id : {1}, side : Sides, order_type : OrderTypes,
   price : Prices, quantity : Quantities]

\* A buy and a sell of one quantity at one price.
BuySell == {o \in AllOrders : o.side \in {0, 1} /\ o.order_type = 0
                               /\ o.price = 1 /\ o.quantity = 3}

\* The buy among them.
OneOrder == {o \in BuySell : o.side = 0}

RECURSIVE SeqsUpTo(_, _)
SeqsUpTo(S, n) ==
  IF n = 0 THEN {<<>>}
  ELSE LET shorter == SeqsUpTo(S, n - 1)
       IN shorter \cup {Append(s, x) : s \in {t \in shorter : Len(t) = n - 1}, x \in S}

\* The argument `orders` of execute_batch.
Batches == SeqsUpTo(BuySell, MaxBatch)

\* ------------------------------------------------------------------- state
VARIABLES
  next_order_id,      \* engine -> AtomicU64
  total_executions,   \* engine -> AtomicU64
  total_latency_ns,   \* engine -> AtomicU64
  min_latency_ns,     \* engine -> AtomicU64
  max_latency_ns,     \* engine -> AtomicU64
  pc,                 \* process -> position in the call it is running
  eo,                 \* process -> locals of its execute_order call (and history:
                      \*   after_reset, the call began when idle_reset held)
  gs,                 \* process -> locals of its get_stats call
  rs,                 \* process -> engine of its reset_stats call
  eb,                 \* process -> locals of its execute_batch call
  bl,                 \* process -> locals of its benchmark_latency call
  budget,             \* the number of calls the callers may still issue
  observed,           \* history: engine -> bag of the (order_id, latency_ns) returned
  reset_called,       \* history: some reset_stats has begun
  quiet,              \* history: process -> its get_stats (reset_stats) began with no
                      \*   execute_order or reset_stats (no execute_order) in flight
                      \*   and none has begun since
  idle_reset,         \* history: a reset_stats ran from its first to its last store
                      \*   with no execute_order in flight, and none has begun since
  after_reset,        \* history: process -> its get_stats began when idle_reset held
                      \*   and no execute_order has begun since
  retry               \* history: process -> for the loop of update_stats it is in
                      \*   or has just left, the compare-exchanges of the process
                      \*   that failed and the values other callers installed
                      \*   since the loop's load

engineVars == <<next_order_id, total_executions, total_latency_ns,
                min_latency_ns, max_latency_ns>>
statVars == <<total_executions, total_latency_ns, min_latency_ns, max_latency_ns>>
frames == <<eo, gs, rs, eb, bl>>
callVars == <<observed, reset_called, quiet, idle_reset, after_reset>>
histVars == <<observed, reset_called, quiet, idle_reset, after_reset, retry>>
vars == <<next_order_id, total_executions, total_latency_ns, min_latency_ns,
          max_latency_ns, pc, eo, gs, rs, eb, bl, budget,
          observed, reset_called, quiet, idle_reset, after_reset, retry>>

NoFrame == [engine |-> 0]

NoRetry == [fails |-> 0, installs |-> 0]

Engines == DOMAIN next_order_id

EoPcs == {"eo_count", "eo_sum", "eo_load_min", "eo_cas_min",
          "eo_load_max", "eo_cas_max", "eo_ret"}
GsPcs == {"gs_latency", "gs_min", "gs_max", "gs_ret"}
RsPcs == {"rs_latency", "rs_min", "rs_max"}

ExecInFlight == \E q \in Procs : pc[q] \in EoPcs
ResetInFlight == \E q \in Procs : pc[q] \in RsPcs

\* RustExecutionEngine::new
new ==
  [next_order_id |-> 1, total_executions |-> 0, total_latency_ns |-> 0,
   min_latency_ns |-> U64_MAX, max_latency_ns |-> 0]

\* The state after `engines` have been constructed, with `calls` calls to come.
StartOn(engines, calls) ==
  /\ next_order_id = [e \in engines |-> new.next_order_id]
  /\ total_executions = [e \in engines |-> new.total_executions]
  /\ total_latency_ns = [e \in engines |-> new.total_latency_ns]
  /\ min_latency_ns = [e \in engines |-> new.min_latency_ns]
  /\ max_latency_ns = [e \in engines |-> new.max_latency_ns]
  /\ observed = [e \in engines |-> EmptyBag]
  /\ pc = [p \in Procs |-> "idle"]
  /\ eo = [p \in Procs |-> NoFrame]
  /\ gs = [p \in Procs |-> NoFrame]
  /\ rs = [p \in Procs |-> NoFrame]
  /\ eb = [p \in Procs |-> NoFrame]
  /\ bl = [p \in Procs |-> NoFrame]
  /\ budget = calls
  /\ reset_called = FALSE
  /\ quiet = [p \in Procs |-> FALSE]
  /\ idle_reset = FALSE
  /\ after_reset = [p \in Procs |-> FALSE]
  /\ retry = [p \in Procs |-> NoRetry]

\* One engine.
Start(calls) == StartOn({1}, calls)


\* ------------------------------------------------------------ execute_order
\* Variant: only side 1 is taken for a sell.
execute_internal_side_one(price, quantity, side, order_type) ==
  LET executed_price == IF order_type = 1 THEN price ELSE price
      slippage == IF side = 1 THEN -1 ELSE 1
      executed_quantity == quantity
  IN <<executed_price, executed_quantity, slippage>>

\* RustExecutionEngine::execute_internal
execute_internal(price, quantity, side, order_type) ==
  LET executed_price == IF order_type = 1 THEN price ELSE price
      slippage == IF side = 0 THEN 1 ELSE -1
      executed_quantity == quantity
  IN <<executed_price, executed_quantity, slippage>>

\* The RustExecution built at the end of execute_order from its locals.
RustExecution(f) ==
  [order_id |-> f.order_id, executed_price |-> f.executed_price,
   executed_quantity |-> f.executed_quantity, latency_ns |-> f.latency_ns,
   slippage |-> f.slippage]

\* Variant: the counter is read but not advanced.
FetchAddOrderIdLost(v) == v

\* The value next_order_id holds after fetch_add(1).
FetchAddOrderId(v) == v + 1

\* Entry of execute_order up to the call of update_stats: fetch_add on
\* next_order_id and execute_internal.
CallExecuteOrder(p, e, o) ==
  LET fill == execute_internal(o.price, o.quantity, o.side, o.order_type)
  IN /\ next_order_id' = [next_order_id EXCEPT ![e] = FetchAddOrderId(@)]
     /\ eo' = [eo EXCEPT ![p] =
                 [engine |-> e, order |-> o, order_id |-> next_order_id[e],
                  executed_price |-> fill[1], executed_quantity |-> fill[2],
                  slippage |-> fill[3], latency_ns |-> 0,
                  current_min |-> 0, current_max |-> 0,
                  after_reset |-> idle_reset]]
     /\ pc' = [pc EXCEPT ![p] = "eo_count"]
     /\ quiet' = [q \in Procs |-> FALSE]
     /\ after_reset' = [q \in Procs |-> FALSE]
     /\ idle_reset' = FALSE
     /\ UNCHANGED <<statVars, gs, rs, bl, observed, reset_called, retry>>

ExecuteOrder(p, e, o) ==
  /\ pc[p] = "idle"
  /\ budget >= 1
  /\ budget' = budget - 1
  /\ CallExecuteOrder(p, e, o)
  /\ UNCHANGED eb

\* Variant: the execution counter is one static shared by all engines.
UpdateCountShared(p, latency_ns) ==
  /\ pc[p] = "eo_count"
  /\ eo' = [eo EXCEPT ![p].latency_ns = latency_ns]
  /\ total_executions' = [e \in Engines |-> total_executions[e] + 1]
  /\ pc' = [pc EXCEPT ![p] = "eo_sum"]
  /\ UNCHANGED <<next_order_id, total_latency_ns, min_latency_ns, max_latency_ns,
                 gs, rs, eb, bl, budget, histVars>>

\* start.elapsed() and, in update_stats, total_executions.fetch_add(1).
UpdateCount(p, latency_ns) ==
  /\ pc[p] = "eo_count"
  /\ eo' = [eo EXCEPT ![p].latency_ns = latency_ns]
  /\ total_executions' = [total_executions EXCEPT ![eo[p].engine] = @ + 1]
  /\ pc' = [pc EXCEPT ![p] = "eo_sum"]
  /\ UNCHANGED <<next_order_id, total_latency_ns, min_latency_ns, max_latency_ns,
                 gs, rs, eb, bl, budget, histVars>>

\* Variant: the latency is stored, not added.
UpdateSumStore(p) ==
  /\ pc[p] = "eo_sum"
  /\ total_latency_ns' = [total_latency_ns EXCEPT ![eo[p].engine] = eo[p].latency_ns]
  /\ pc' = [pc EXCEPT ![p] = "eo_load_min"]
  /\ UNCHANGED <<next_order_id, total_executions, min_latency_ns, max_latency_ns,
                 frames, budget, histVars>>

\* total_latency_ns.fetch_add(latency_ns)
UpdateSum(p) ==
  /\ pc[p] = "eo_sum"
  /\ total_latency_ns' = [total_latency_ns EXCEPT ![eo[p].engine] = @ + eo[p].latency_ns]
  /\ pc' = [pc EXCEPT ![p] = "eo_load_min"]
  /\ UNCHANGED <<next_order_id, total_executions, min_latency_ns, max_latency_ns,
                 frames, budget, histVars>>

\* Variant: the loop starts from the sentinel instead of a load.
LoadMinSentinel(p) ==
  /\ pc[p] = "eo_load_min"
  /\ eo' = [eo EXCEPT ![p].current_min = U64_MAX]
  /\ pc' = [pc EXCEPT ![p] =
              IF eo[p].latency_ns < U64_MAX THEN "eo_cas_min" ELSE "eo_load_max"]
  /\ UNCHANGED <<engineVars, gs, rs, eb, bl, budget, histVars>>

\* current_min = min_latency_ns.load(), then the first test of the loop.
LoadMin(p) ==
  /\ pc[p] = "eo_load_min"
  /\ eo' = [eo EXCEPT ![p].current_min = min_latency_ns[eo[p].engine]]
  /\ pc' = [pc EXCEPT ![p] =
              IF eo[p].latency_ns < min_latency_ns[eo[p].engine]
              THEN "eo_cas_min" ELSE "eo_load_max"]
  /\ UNCHANGED <<engineVars, gs, rs, eb, bl, budget, histVars>>

\* The callers other than p that are in the min loop on p's engine.
OthersInMinLoop(p) ==
  {q \in Procs \ {p} : pc[q] = "eo_cas_min" /\ eo[q].engine = eo[p].engine}

\* The callers other than p that are in the max loop on p's engine.
OthersInMaxLoop(p) ==
  {q \in Procs \ {p} : pc[q] = "eo_cas_max" /\ eo[q].engine = eo[p].engine}

\* Variant: the new minimum is stored without comparing with current_min.
CasMinBlindStore(p) ==
  /\ pc[p] = "eo_cas_min"
  /\ min_latency_ns' = [min_latency_ns EXCEPT ![eo[p].engine] = eo[p].latency_ns]
  /\ pc' = [pc EXCEPT ![p] = "eo_load_max"]
  /\ UNCHANGED <<next_order_id, total_executions, total_latency_ns, max_latency_ns,
                 frames, budget, histVars>>

\* compare_exchange_weak(current_min, latency_ns) succeeds: Ok(_) => break
CasMinOk(p) ==
  /\ pc[p] = "eo_cas_min"
  /\ min_latency_ns[eo[p].engine] = eo[p].current_min
  /\ min_latency_ns' = [min_latency_ns EXCEPT ![eo[p].engine] = eo[p].latency_ns]
  /\ pc' = [pc EXCEPT ![p] = "eo_load_max"]
  /\ retry' = [q \in Procs |->
                 IF q \in OthersInMinLoop(p)
                 THEN [retry[q] EXCEPT !.installs = @ + 1] ELSE retry[q]]
  /\ UNCHANGED <<next_order_id, total_executions, total_latency_ns, max_latency_ns,
                 frames, budget, callVars>>

\* Variant: on a failed comparison the new value is stored all the same.
CasMinFailOverwrite(p) ==
  /\ pc[p] = "eo_cas_min"
  /\ min_latency_ns[eo[p].engine] /= eo[p].current_min
  /\ min_latency_ns' = [min_latency_ns EXCEPT ![eo[p].engine] = eo[p].latency_ns]
  /\ pc' = [pc EXCEPT ![p] = "eo_load_max"]
  /\ UNCHANGED <<next_order_id, total_executions, total_latency_ns, max_latency_ns,
                 frames, budget, histVars>>

\* Variant: the value Err(x) carries is dropped, so the loop tries again
\* with the current_min it already has.
CasMinFailStale(p) ==
  /\ pc[p] = "eo_cas_min"
  /\ min_latency_ns[eo[p].engine] /= eo[p].current_min
  /\ UNCHANGED vars

\* compare_exchange_weak fails on a changed value: Err(x) => current_min = x,
\* then the test of the loop.
CasMinFail(p) ==
  /\ pc[p] = "eo_cas_min"
  /\ min_latency_ns[eo[p].engine] /= eo[p].current_min
  /\ eo' = [eo EXCEPT ![p].current_min = min_latency_ns[eo[p].engine]]
  /\ pc' = [pc EXCEPT ![p] =
              IF eo[p].latency_ns < min_latency_ns[eo[p].engine]
              THEN "eo_cas_min" ELSE "eo_load_max"]
  /\ retry' = [retry EXCEPT ![p].fails = @ + 1]
  /\ UNCHANGED <<engineVars, gs, rs, eb, bl, budget, callVars>>

\* current_max = max_latency_ns.load(), then the first test of the loop.
LoadMax(p) ==
  /\ pc[p] = "eo_load_max"
  /\ eo' = [eo EXCEPT ![p].current_max = max_latency_ns[eo[p].engine]]
  /\ pc' = [pc EXCEPT ![p] =
              IF eo[p].latency_ns > max_latency_ns[eo[p].engine]
              THEN "eo_cas_max" ELSE "eo_ret"]
  /\ retry' = [retry EXCEPT ![p] = NoRetry]
  /\ UNCHANGED <<engineVars, gs, rs, eb, bl, budget, callVars>>

\* compare_exchange_weak(current_max, latency_ns) succeeds: Ok(_) => break
CasMaxOk(p) ==
  /\ pc[p] = "eo_cas_max"
  /\ max_latency_ns[eo[p].engine] = eo[p].current_max
  /\ max_latency_ns' = [max_latency_ns EXCEPT ![eo[p].engine] = eo[p].latency_ns]
  /\ pc' = [pc EXCEPT ![p] = "eo_ret"]
  /\ retry' = [q \in Procs |->
                 IF q \in OthersInMaxLoop(p)
                 THEN [retry[q] EXCEPT !.installs = @ + 1] ELSE retry[q]]
  /\ UNCHANGED <<next_order_id, total_executions, total_latency_ns, min_latency_ns,
                 frames, budget, callVars>>

\* compare_exchange_weak fails on a changed value: Err(x) => current_max = x,
\* then the test of the loop.
CasMaxFail(p) ==
  /\ pc[p] = "eo_cas_max"
  /\ max_latency_ns[eo[p].engine] /= eo[p].current_max
  /\ eo' = [eo EXCEPT ![p].current_max = max_latency_ns[eo[p].engine]]
  /\ pc' = [pc EXCEPT ![p] =
              IF eo[p].latency_ns > max_latency_ns[eo[p].engine]
              THEN "eo_cas_max" ELSE "eo_ret"]
  /\ retry' = [retry EXCEPT ![p].fails = @ + 1]
  /\ UNCHANGED <<engineVars, gs, rs, eb, bl, budget, callVars>>

\* Variant: the record is inserted at the front.
PushFront(executions, execution) == <<execution>> \o executions

\* executions.push(execution) in execute_batch
Push(executions, execution) == Append(executions, execution)

\* Ok(RustExecution { .. }): the record goes to the caller, which is
\* execute_batch when the process is inside one.
ReturnExecution(p) ==
  /\ pc[p] = "eo_ret"
  /\ observed' = [observed EXCEPT ![eo[p].engine] =
                      @ (+) SetToBag({<<eo[p].order_id, eo[p].latency_ns>>})]
  /\ eo' = [eo EXCEPT ![p] = NoFrame]
  /\ retry' = [retry EXCEPT ![p] = NoRetry]
  /\ IF eb[p] /= NoFrame
     THEN /\ eb' = [eb EXCEPT ![p].executions = Push(@, RustExecution(eo[p]))]
          /\ pc' = [pc EXCEPT ![p] = "eb_loop"]
     ELSE /\ eb' = eb
          /\ pc' = [pc EXCEPT ![p] = "idle"]
  /\ UNCHANGED <<engineVars, gs, rs, bl, budget,
                 reset_called, quiet, idle_reset, after_reset>>

\* ---------------------------------------------------------------- get_stats
\* Variant: the minimum is reported as loaded.
StatsDictRaw(total_executions_, total_latency, min_latency, max_latency) ==
  [total_executions |-> total_executions_,
   avg_latency_ns |-> IF total_executions_ > 0
                      THEN total_latency \div total_executions_ ELSE 0,
   min_latency_ns |-> min_latency,
   max_latency_ns |-> max_latency]

\* The dictionary get_stats builds from its four loaded values.
StatsDict(total_executions_, total_latency, min_latency, max_latency) ==
  [total_executions |-> total_executions_,
   avg_latency_ns |-> IF total_executions_ > 0
                      THEN total_latency \div total_executions_ ELSE 0,
   min_latency_ns |-> IF min_latency = U64_MAX THEN 0 ELSE min_latency,
   max_latency_ns |-> max_latency]

\* The dictionary a get_stats call at its return point hands to its caller.
Stats(p) ==
  StatsDict(gs[p].total_executions, gs[p].total_latency,
            gs[p].min_latency, gs[p].max_latency)

\* The dictionary get_stats returns when its four loads read the engine as
\* it is now, which they do when no other caller takes a step in between.
GetStatsNow(e) ==
  StatsDict(total_executions[e], total_latency_ns[e],
            min_latency_ns[e], max_latency_ns[e])

\* total_executions.load()
GetStats(p, e) ==
  /\ pc[p] = "idle"
  /\ budget >= 1
  /\ budget' = budget - 1
  /\ gs' = [gs EXCEPT ![p] =
              [engine |-> e, total_executions |-> total_executions[e],
               total_latency |-> 0, min_latency |-> 0, max_latency |-> 0]]
  /\ pc' = [pc EXCEPT ![p] = "gs_latency"]
  /\ quiet' = [quiet EXCEPT ![p] = ~ExecInFlight /\ ~ResetInFlight]
  /\ after_reset' = [after_reset EXCEPT ![p] = idle_reset]
  /\ UNCHANGED <<engineVars, eo, rs, eb, bl, observed, reset_called, idle_reset, retry>>

\* total_latency_ns.load()
GetStatsLatency(p) ==
  /\ pc[p] = "gs_latency"
  /\ gs' = [gs EXCEPT ![p].total_latency = total_latency_ns[gs[p].engine]]
  /\ pc' = [pc EXCEPT ![p] = "gs_min"]
  /\ UNCHANGED <<engineVars, eo, rs, eb, bl, budget, histVars>>

\* min_latency_ns.load()
GetStatsMin(p) ==
  /\ pc[p] = "gs_min"
  /\ gs' = [gs EXCEPT ![p].min_latency = min_latency_ns[gs[p].engine]]
  /\ pc' = [pc EXCEPT ![p] = "gs_max"]
  /\ UNCHANGED <<engineVars, eo, rs, eb, bl, budget, histVars>>

\* max_latency_ns.load(); the dictionary is then built from the locals.
GetStatsMax(p) ==
  /\ pc[p] = "gs_max"
  /\ gs' = [gs EXCEPT ![p].max_latency = max_latency_ns[gs[p].engine]]
  /\ pc' = [pc EXCEPT ![p] = "gs_ret"]
  /\ UNCHANGED <<engineVars, eo, rs, eb, bl, budget, histVars>>

\* Ok(dict.into())
GetStatsReturn(p) ==
  /\ pc[p] = "gs_ret"
  /\ gs' = [gs EXCEPT ![p] = NoFrame]
  /\ pc' = [pc EXCEPT ![p] = "idle"]
  /\ quiet' = [quiet EXCEPT ![p] = FALSE]
  /\ after_reset' = [after_reset EXCEPT ![p] = FALSE]
  /\ UNCHANGED <<engineVars, eo, rs, eb, bl, budget, observed, reset_called, idle_reset, retry>>

\* -------------------------------------------------------------- reset_stats
\* Variant: the reset also puts the order-id counter back to its first value.
ResetCountAndIds(p, e) ==
  /\ pc[p] = "idle"
  /\ budget >= 1
  /\ budget' = budget - 1
  /\ total_executions' = [total_executions EXCEPT ![e] = 0]
  /\ next_order_id' = [next_order_id EXCEPT ![e] = new.next_order_id]
  /\ rs' = [rs EXCEPT ![p] = [engine |-> e]]
  /\ pc' = [pc EXCEPT ![p] = "rs_latency"]
  /\ reset_called' = TRUE
  /\ quiet' = [q \in Procs |->
                 IF q = p THEN ~ExecInFlight
                 ELSE IF pc[q] \in RsPcs THEN quiet[q] ELSE FALSE]
  /\ UNCHANGED <<total_latency_ns, min_latency_ns, max_latency_ns,
                 eo, gs, eb, bl, observed, idle_reset, after_reset, retry>>

\* total_executions.store(0)
ResetCount(p, e) ==
  /\ pc[p] = "idle"
  /\ budget >= 1
  /\ budget' = budget - 1
  /\ total_executions' = [total_executions EXCEPT ![e] = 0]
  /\ rs' = [rs EXCEPT ![p] = [engine |-> e]]
  /\ pc' = [pc EXCEPT ![p] = "rs_latency"]
  /\ reset_called' = TRUE
  /\ quiet' = [q \in Procs |->
                 IF q = p THEN ~ExecInFlight
                 ELSE IF pc[q] \in RsPcs THEN quiet[q] ELSE FALSE]
  /\ UNCHANGED <<next_order_id, total_latency_ns, min_latency_ns, max_latency_ns,
                 eo, gs, eb, bl, observed, idle_reset, after_reset, retry>>

\* total_latency_ns.store(0)
ResetLatency(p) ==
  /\ pc[p] = "rs_latency"
  /\ total_latency_ns' = [total_latency_ns EXCEPT ![rs[p].engine] = 0]
  /\ pc' = [pc EXCEPT ![p] = "rs_min"]
  /\ UNCHANGED <<next_order_id, total_executions, min_latency_ns, max_latency_ns,
                 frames, budget, histVars>>

\* min_latency_ns.store(u64::MAX)
ResetMin(p) ==
  /\ pc[p] = "rs_min"
  /\ min_latency_ns' = [min_latency_ns EXCEPT ![rs[p].engine] = U64_MAX]
  /\ pc' = [pc EXCEPT ![p] = "rs_max"]
  /\ UNCHANGED <<next_order_id, total_executions, total_latency_ns, max_latency_ns,
                 frames, budget, histVars>>

\* max_latency_ns.store(0)
ResetMax(p) ==
  /\ pc[p] = "rs_max"
  /\ max_latency_ns' = [max_latency_ns EXCEPT ![rs[p].engine] = 0]
  /\ rs' = [rs EXCEPT ![p] = NoFrame]
  /\ pc' = [pc EXCEPT ![p] = "idle"]
  /\ idle_reset' = (idle_reset \/ quiet[p])
  /\ quiet' = [quiet EXCEPT ![p] = FALSE]
  /\ UNCHANGED <<next_order_id, total_executions, total_latency_ns, min_latency_ns,
                 eo, gs, eb, bl, budget, observed, reset_called, after_reset, retry>>

\* ------------------------------------------------------------ execute_batch
\* Vec::with_capacity(orders.len())
ExecuteBatch(p, e, orders) ==
  /\ pc[p] = "idle"
  /\ budget >= Len(orders)
  /\ budget' = budget - Len(orders)
  /\ eb' = [eb EXCEPT ![p] =
              [engine |-> e, input |-> orders, orders |-> orders, executions |-> <<>>]]
  /\ pc' = [pc EXCEPT ![p] = "eb_loop"]
  /\ UNCHANGED <<engineVars, eo, gs, rs, bl, histVars>>

\* one iteration of `for .. in orders`: the call of engine.execute_order
BatchNext(p) ==
  /\ pc[p] = "eb_loop"
  /\ eb[p].orders /= <<>>
  /\ CallExecuteOrder(p, eb[p].engine, Head(eb[p].orders))
  /\ eb' = [eb EXCEPT ![p].orders = Tail(@)]
  /\ UNCHANGED budget

\* the loop is over: Ok(executions)
BatchReturn(p) ==
  /\ pc[p] = "eb_loop"
  /\ eb[p].orders = <<>>
  /\ pc' = [pc EXCEPT ![p] = "eb_ret"]
  /\ UNCHANGED <<engineVars, frames, budget, histVars>>

\* the caller takes the result
BatchDone(p) ==
  /\ pc[p] = "eb_ret"
  /\ eb' = [eb EXCEPT ![p] = NoFrame]
  /\ pc' = [pc EXCEPT ![p] = "idle"]
  /\ UNCHANGED <<engineVars, eo, gs, rs, bl, budget, histVars>>

\* -------------------------------------------------------- benchmark_latency
\* The number of warm-up executions.
WARMUP == 100

\* The synthetic order of the benchmark: (1, 0, 0, 50000.0, 1.0).
BenchOrder ==
  [symbol_id |-> 1, side |-> 0, order_type |-> 0, price |-> 50000, quantity |-> 1]

\* update_stats on an engine no other caller can reach: each loop finds the
\* value it has just loaded, so its compare-exchange succeeds at once.
update_stats(engine, latency_ns) ==
  [engine EXCEPT
     !.total_executions = @ + 1,
     !.total_latency_ns = @ + latency_ns,
     !.min_latency_ns = IF latency_ns < @ THEN latency_ns ELSE @,
     !.max_latency_ns = IF latency_ns > @ THEN latency_ns ELSE @]

\* execute_order on an engine no other caller can reach: the engine after
\* the call and the record returned.
execute_order(engine, o, latency_ns) ==
  LET fill == execute_internal(o.price, o.quantity, o.side, o.order_type)
  IN [engine |-> update_stats([engine EXCEPT !.next_order_id = FetchAddOrderId(@)],
                              latency_ns),
      execution |-> [order_id |-> engine.next_order_id,
                     executed_price |-> fill[1], executed_quantity |-> fill[2],
                     latency_ns |-> latency_ns, slippage |-> fill[3]]]

\* reset_stats on an engine no other caller can reach.
reset_stats(engine) ==
  [engine EXCEPT !.total_executions = 0, !.total_latency_ns = 0,
                 !.min_latency_ns = U64_MAX, !.max_latency_ns = 0]

RECURSIVE Insert(_, _)
Insert(s, x) ==
  IF s = <<>> THEN <<x>>
  ELSE IF x <= Head(s) THEN <<x>> \o s
  ELSE <<Head(s)>> \o Insert(Tail(s), x)

\* latencies.sort_unstable()
RECURSIVE sort_unstable(_)
sort_unstable(s) ==
  IF s = <<>> THEN <<>> ELSE Insert(sort_unstable(Tail(s)), Head(s))

RECURSIVE Sum(_)
Sum(s) == IF s = <<>> THEN 0 ELSE Head(s) + Sum(Tail(s))

\* Variant: the maximum is read one past the last element.
ReadIndicesPastEnd(iterations) ==
  <<iterations \div 2, (iterations * 95) \div 100, (iterations * 99) \div 100,
    0, iterations>>

\* The indices benchmark_latency reads in the sorted vector, in the order
\* of the reads (0-based, as in the code).
ReadIndices(iterations) ==
  <<iterations \div 2, (iterations * 95) \div 100, (iterations * 99) \div 100,
    0, iterations - 1>>

\* v[i] of a Vec: the element when i is in bounds; the index panics otherwise.
InBounds(v, i) == 0 <= i /\ i < Len(v)
At(v, i) == v[i + 1]

\* The dictionary benchmark_latency returns.
BenchDict(latencies, iterations) ==
  LET sorted == sort_unstable(latencies)
      idx == ReadIndices(iterations)
  IN [iterations |-> iterations,
      avg_ns |-> Sum(sorted) \div iterations,
      min_ns |-> At(sorted, idx[4]),
      max_ns |-> At(sorted, idx[5]),
      p50_ns |-> At(sorted, idx[1]),
      p95_ns |-> At(sorted, idx[2]),
      p99_ns |-> At(sorted, idx[3])]

\* RustExecutionEngine::new() and Vec::with_capacity(iterations)
BenchmarkLatency(p, iterations) ==
  /\ pc[p] = "idle"
  /\ budget >= 1
  /\ budget' = budget - 1
  /\ bl' = [bl EXCEPT ![p] =
              [engine |-> new, iterations |-> iterations, warm |-> 0,
               latencies |-> <<>>, ids |-> <<>>]]
  /\ pc' = [pc EXCEPT ![p] = "bl_warm"]
  /\ UNCHANGED <<engineVars, eo, gs, rs, eb, histVars>>

\* one iteration of `for _ in 0..100`; the record is dropped
BenchWarmUp(p, latency_ns) ==
  /\ pc[p] = "bl_warm"
  /\ bl[p].warm < WARMUP
  /\ bl' = [bl EXCEPT ![p].engine = execute_order(@, BenchOrder, latency_ns).engine,
                      ![p].warm = @ + 1]
  /\ UNCHANGED <<engineVars, pc, eo, gs, rs, eb, budget, histVars>>

\* Variant: the measured loop starts without the reset.
BenchResetSkipped(p) ==
  /\ pc[p] = "bl_warm"
  /\ bl[p].warm = WARMUP
  /\ pc' = [pc EXCEPT ![p] = "bl_measure"]
  /\ UNCHANGED <<engineVars, frames, budget, histVars>>

\* engine.reset_stats()
BenchReset(p) ==
  /\ pc[p] = "bl_warm"
  /\ bl[p].warm = WARMUP
  /\ bl' = [bl EXCEPT ![p].engine = reset_stats(@)]
  /\ pc' = [pc EXCEPT ![p] = "bl_measure"]
  /\ UNCHANGED <<engineVars, eo, gs, rs, eb, budget, histVars>>

\* one iteration of `for _ in 0..iterations`
BenchMeasure(p, latency_ns) ==
  /\ pc[p] = "bl_measure"
  /\ Len(bl[p].latencies) < bl[p].iterations
  /\ LET r == execute_order(bl[p].engine, BenchOrder, latency_ns)
     IN bl' = [bl EXCEPT ![p].engine = r.engine,
                         ![p].latencies = Append(@, r.execution.latency_ns),
                         ![p].ids = Append(@, r.execution.order_id)]
  /\ UNCHANGED <<engineVars, pc, eo, gs, rs, eb, budget, histVars>>

\* The sort and the five reads; a read out of bounds panics.
BenchReport(p) ==
  /\ pc[p] = "bl_measure"
  /\ Len(bl[p].latencies) = bl[p].iterations
  /\ LET idx == ReadIndices(bl[p].iterations)
     IN pc' = [pc EXCEPT ![p] =
                 IF \A k \in 1..Len(idx) : InBounds(bl[p].latencies, idx[k])
                 THEN "bl_ret" ELSE "bl_panic"]
  /\ UNCHANGED <<engineVars, frames, budget, histVars>>

\* the caller takes the dictionary, or sees the panic
BenchDone(p) ==
  /\ pc[p] \in {"bl_ret", "bl_panic"}
  /\ bl' = [bl EXCEPT ![p] = NoFrame]
  /\ pc' = [pc EXCEPT ![p] = "idle"]
  /\ UNCHANGED <<engineVars, eo, gs, rs, eb, budget, histVars>>

\* The dictionary a benchmark_latency call at its return point hands over.
BenchResult(p) == BenchDict(bl[p].latencies, bl[p].iterations)

\* ------------------------------------------------------------ specifications
ExecuteSteps(p, clock) ==
  \/ \E lat \in clock : UpdateCount(p, lat)
  \/ UpdateSum(p)
  \/ LoadMin(p)
  \/ CasMinOk(p)
  \/ CasMinFail(p)
  \/ LoadMax(p)
  \/ CasMaxOk(p)
  \/ CasMaxFail(p)
  \/ ReturnExecution(p)

\* Callers that execute single orders, read the statistics and reset them,
\* MaxCalls calls in all.
Init == Start(MaxCalls)

Next ==
  \E p \in Procs :
    \/ \E e \in Engines, o \in OneOrder : ExecuteOrder(p, e, o)
    \/ ExecuteSteps(p, Latencies)
    \/ \E e \in Engines : GetStats(p, e)
    \/ GetStatsLatency(p)
    \/ GetStatsMin(p)
    \/ GetStatsMax(p)
    \/ GetStatsReturn(p)
    \/ \E e \in Engines : ResetCount(p, e)
    \/ ResetLatency(p)
    \/ ResetMin(p)
    \/ ResetMax(p)

Spec == Init /\ [][Next]_vars

\* Callers that execute single orders, one of them also resetting the
\* statistics, under fair scheduling: a caller inside execute_order is not
\* starved, and a compare_exchange_weak whose comparison keeps succeeding
\* does not fail spuriously for ever.  get_stats writes nothing and is left
\* out.
ResetCaller == CHOOSE p \in Procs : TRUE

InitLive == Start(MaxLiveCalls)

NextLive ==
  \E p \in Procs :
    \/ \E e \in Engines, o \in OneOrder : ExecuteOrder(p, e, o)
    \/ ExecuteSteps(p, TwoLatencies)
    \/ \E e \in Engines : p = ResetCaller /\ ResetCount(p, e)
    \/ ResetLatency(p)
    \/ ResetMin(p)
    \/ ResetMax(p)

Fairness == \A p \in Procs : WF_vars(ExecuteSteps(p, TwoLatencies))

SpecLive == InitLive /\ [][NextLive]_vars /\ Fairness

\* One caller that executes batches while the other callers execute single
\* orders on the same engine, every execution measuring the same latency.
BatchCaller == CHOOSE p \in Procs : TRUE

InitBatch == Start(MaxBatchOrders)

NextBatch ==
  \E p \in Procs :
    \/ \E e \in Engines, o \in OneOrder :
         p # BatchCaller /\ ExecuteOrder(p, e, o)
    \/ ExecuteSteps(p, OneLatency)
    \/ \E e \in Engines, os \in Batches :
         p = BatchCaller /\ ExecuteBatch(p, e, os)
    \/ BatchNext(p)
    \/ BatchReturn(p)
    \/ BatchDone(p)

SpecBatch == InitBatch /\ [][NextBatch]_vars

\* One caller that executes orders of every kind while the other callers
\* execute one fixed order on the same engine, every execution measuring the
\* same latency.
FillCaller == CHOOSE p \in Procs : TRUE

FillOrders(p) == IF p = FillCaller THEN AllOrders ELSE OneOrder

InitFill == Start(MaxFillOrders)

NextFill ==
  \E p \in Procs :
    \/ \E e \in Engines, o \in FillOrders(p) : ExecuteOrder(p, e, o)
    \/ ExecuteSteps(p, OneLatency)

SpecFill == InitFill /\ [][NextFill]_vars

\* One caller that executes single orders, one after the other, while the
\* other callers reset and read the statistics of the same engine.  The
\* clock has two values, so that a reset can make a compare-exchange fail.
OrderCaller == CHOOSE p \in Procs : TRUE

InitReset == Start(MaxResetCalls)

NextReset ==
  \E p \in Procs :
    \/ \E e \in Engines, o \in OneOrder :
         p = OrderCaller /\ ExecuteOrder(p, e, o)
    \/ ExecuteSteps(p, TwoLatencies)
    \/ \E e \in Engines : p # OrderCaller /\ GetStats(p, e)
    \/ GetStatsLatency(p)
    \/ GetStatsMin(p)
    \/ GetStatsMax(p)
    \/ GetStatsReturn(p)
    \/ \E e \in Engines : p # OrderCaller /\ ResetCount(p, e)
    \/ ResetLatency(p)
    \/ ResetMin(p)
    \/ ResetMax(p)

SpecReset == InitReset /\ [][NextReset]_vars

\* One caller of benchmark_latency.  Each call builds its own engine and
\* shares nothing with any other call, so one caller shows every behaviour.
BenchCaller == CHOOSE p \in Procs : TRUE

InitBench == Start(MaxBenchCalls)

NextBench ==
  \/ \E n \in 0..MaxIterations : BenchmarkLatency(BenchCaller, n)
  \/ \E lat \in Latencies : BenchWarmUp(BenchCaller, lat)
  \/ BenchReset(BenchCaller)
  \/ \E lat \in Latencies : BenchMeasure(BenchCaller, lat)
  \/ BenchReport(BenchCaller)
  \/ BenchDone(BenchCaller)

SpecBench == InitBench /\ [][NextBench]_vars

\* Two engines.  One caller works on the first engine and also runs
\* benchmark_latency; the other callers work on either engine.  Every
\* execution measures the same latency.
TwoEngines == {1, 2}

\* The argument of benchmark_latency here.
OneIteration == {1}

EnginesOf(p) == IF p = BenchCaller THEN {1} ELSE TwoEngines

InitEngines == StartOn(TwoEngines, MaxEngineCalls)

NextEngines ==
  \/ \E p \in Procs :
       \/ \E e \in EnginesOf(p), o \in OneOrder : ExecuteOrder(p, e, o)
       \/ ExecuteSteps(p, OneLatency)
       \/ \E e \in EnginesOf(p) : GetStats(p, e)
       \/ GetStatsLatency(p)
       \/ GetStatsMin(p)
       \/ GetStatsMax(p)
       \/ GetStatsReturn(p)
       \/ \E e \in EnginesOf(p) : ResetCount(p, e)
       \/ ResetLatency(p)
       \/ ResetMin(p)
       \/ ResetMax(p)
  \/ \E n \in OneIteration : BenchmarkLatency(BenchCaller, n)
  \/ \E lat \in OneLatency : BenchWarmUp(BenchCaller, lat)
  \/ BenchReset(BenchCaller)
  \/ \E lat \in OneLatency : BenchMeasure(BenchCaller, lat)
  \/ BenchReport(BenchCaller)
  \/ BenchDone(BenchCaller)

SpecEngines == InitEngines /\ [][NextEngines]_vars

\* ------------------------------------------------------------------ claims
\* The latencies of the records execute_order has returned on engine e.
ObservedIds(e) == {r[1] : r \in BagToSet(observed[e])}
ObservedLatencies(e) == {r[2] : r \in BagToSet(observed[e])}
ObservedCount(e) == BagCardinality(observed[e])

RECURSIVE SumOfRecords(_, _)
SumOfRecords(B, S) ==
  IF S = {} THEN 0
  ELSE LET r == CHOOSE x \in S : TRUE
       IN r[2] * CopiesIn(r, B) + SumOfRecords(B, S \ {r})

ObservedSum(e) == SumOfRecords(observed[e], BagToSet(observed[e]))

InFlightOn(e) == {q \in Procs : pc[q] \in EoPcs /\ eo[q].engine = e}

\* What get_stats reports on engine e once every execute_order and every
\* reset_stats has completed: the dictionaries of the get_stats calls that ran
\* undisturbed from their first load, and the dictionary a get_stats that
\* runs now returns.
QuietReports(e) ==
  {Stats(p) : p \in {q \in Procs : pc[q] = "gs_ret" /\ quiet[q] /\ gs[q].engine = e}}
  \cup (IF ExecInFlight \/ ResetInFlight THEN {} ELSE {GetStatsNow(e)})

\* What get_stats reports on engine e right after a reset_stats that ran with
\* no execute_order in flight, no execute_order having begun since.
ResetReports(e) ==
  {Stats(p) : p \in {q \in Procs : pc[q] = "gs_ret" /\ after_reset[q] /\ gs[q].engine = e}}
  \cup (IF idle_reset THEN {GetStatsNow(e)} ELSE {})

\* C1: on one engine the order ids handed out are distinct and consecutive
\* from 1: the ids of the calls that have returned together with those of
\* the calls in flight are exactly 1..n, n being the number of these calls;
\* so once N calls have returned and none is in flight the ids returned are
\* exactly 1..N, whatever reset_stats and get_stats calls ran in between.
C1_OrderIdsConsecutive ==
  \A e \in Engines :
    LET n == ObservedCount(e) + Cardinality(InFlightOn(e))
    IN ObservedIds(e) \cup {eo[q].order_id : q \in InFlightOn(e)} = 1..n

C1_Witness ==
  /\ ~ExecInFlight
  /\ ObservedCount(1) = MaxCalls
  /\ ObservedIds(1) = 1..MaxCalls

\* C2: with no reset_stats called, get_stats after every execute_order has
\* completed reports the smallest and the largest of the latencies those
\* calls returned.
C2_TrueMinMax ==
  \A e \in Engines :
    (~reset_called /\ ObservedCount(e) > 0)
    => \A d \in QuietReports(e) :
         /\ d.min_latency_ns \in ObservedLatencies(e)
         /\ d.max_latency_ns \in ObservedLatencies(e)
         /\ \A l \in ObservedLatencies(e) :
              d.min_latency_ns <= l /\ l <= d.max_latency_ns

C2_Witness ==
  /\ ~reset_called
  /\ ObservedCount(1) = 2
  /\ \E d \in QuietReports(1) : d.min_latency_ns < d.max_latency_ns

\* C3: with no reset_stats called, get_stats after N execute_order calls
\* have completed reports total_executions = N and avg_latency_ns =
\* floor(S / N), S being the sum of the latencies returned.
C3_NoLostUpdate ==
  \A e \in Engines :
    ~reset_called
    => \A d \in QuietReports(e) :
         LET n == ObservedCount(e)
         IN /\ d.total_executions = n
            /\ n > 0 => d.avg_latency_ns = ObservedSum(e) \div n

C3_Witness ==
  /\ ~reset_called
  /\ ObservedCount(1) = 2
  /\ ObservedSum(1) = 1
  /\ \E d \in QuietReports(1) : d.total_executions = 2 /\ d.avg_latency_ns = 0

\* C4: get_stats after every execute_order and reset_stats has completed
\* never reports min_latency_ns > max_latency_ns, also when the reset_stats
\* ran while execute_order calls were in flight.
C4_MinNotAboveMax ==
  \A e \in Engines :
    \A d \in QuietReports(e) : d.min_latency_ns <= d.max_latency_ns

\* C5: a get_stats that observes total_executions = 0 reports
\* avg_latency_ns = 0 and min_latency_ns = 0.
C5_ZeroCountZeroMin ==
  \A p \in Procs :
    (pc[p] = "gs_ret" /\ Stats(p).total_executions = 0)
    => Stats(p).avg_latency_ns = 0 /\ Stats(p).min_latency_ns = 0

\* C6: a reset_stats that runs with no execute_order in flight, followed by
\* a get_stats with no execute_order in between, yields all four fields 0.
C6_ResetThenZero ==
  \A e \in Engines :
    \A d \in ResetReports(e) :
      d = [total_executions |-> 0, avg_latency_ns |-> 0,
           min_latency_ns |-> 0, max_latency_ns |-> 0]

C6_Witness ==
  /\ ObservedCount(1) > 0
  /\ min_latency_ns[1] = U64_MAX
  /\ ResetReports(1) /= {}

\* C7: benchmark_latency(0) ends in an error handed to the caller: it does
\* not panic and it does not return a dictionary.
C7_ZeroIterationsRejected ==
  \A p \in Procs :
    (bl[p] /= NoFrame /\ bl[p].iterations = 0)
    => pc[p] \notin {"bl_panic", "bl_ret"}

\* C8: for iterations >= 1 every read of benchmark_latency is in bounds (it
\* does not panic) and the dictionary has iterations = n,
\* min_ns <= p50_ns <= p95_ns <= p99_ns <= max_ns and min_ns <= avg_ns <= max_ns.
C8_BenchOrdered ==
  \A p \in Procs :
    (pc[p] \in {"bl_ret", "bl_panic"} /\ bl[p].iterations >= 1)
    => /\ pc[p] = "bl_ret"
       /\ LET r == BenchResult(p)
          IN /\ r.iterations = Len(bl[p].latencies)
             /\ r.iterations = bl[p].iterations
             /\ r.min_ns <= r.p50_ns /\ r.p50_ns <= r.p95_ns
             /\ r.p95_ns <= r.p99_ns /\ r.p99_ns <= r.max_ns
             /\ r.min_ns <= r.avg_ns /\ r.avg_ns <= r.max_ns
             /\ \A k \in 1..Len(bl[p].latencies) :
                  r.min_ns <= bl[p].latencies[k] /\ bl[p].latencies[k] <= r.max_ns

C8_Witness ==
  \E p \in Procs :
    /\ pc[p] = "bl_ret"
    /\ bl[p].iterations = 3
    /\ bl[p].latencies[1] > bl[p].latencies[3]
    /\ BenchResult(p).p50_ns < BenchResult(p).p95_ns

\* C9: execute_batch over n orders returns n records, the i-th being the
\* fill of the i-th order, with strictly increasing order ids, also when
\* other callers execute on the engine meanwhile.
C9_BatchInOrder ==
  \A p \in Procs :
    pc[p] = "eb_ret"
    => /\ Len(eb[p].executions) = Len(eb[p].input)
       /\ \A i \in 1..Len(eb[p].executions) :
            /\ eb[p].executions[i].executed_price = eb[p].input[i].price
            /\ eb[p].executions[i].executed_quantity = eb[p].input[i].quantity
            /\ eb[p].executions[i].slippage = (IF eb[p].input[i].side = 0 THEN 1 ELSE -1)
       /\ \A i, j \in 1..Len(eb[p].executions) :
            i < j => eb[p].executions[i].order_id < eb[p].executions[j].order_id

C9_Witness ==
  \E p \in Procs :
    /\ pc[p] = "eb_ret"
    /\ Len(eb[p].input) = 2
    /\ eb[p].input[1].side /= eb[p].input[2].side
    /\ eb[p].executions[1].order_id = 1
    /\ eb[p].executions[2].order_id = 3
    /\ \E q \in Procs : pc[q] \in EoPcs /\ eo[q].order_id = 2

\* C10: the record execute_order returns has the price and the quantity of
\* the order and slippage +0.0001 for side 0, -0.0001 for any other side,
\* whatever the order type, the engine state and the interleaving.
C10_FillFromOrder ==
  \A p \in Procs :
    pc[p] = "eo_ret"
    => /\ RustExecution(eo[p]).executed_price = eo[p].order.price
       /\ RustExecution(eo[p]).executed_quantity = eo[p].order.quantity
       /\ RustExecution(eo[p]).slippage = (IF eo[p].order.side = 0 THEN 1 ELSE -1)

C10_Witness ==
  \E p, q \in Procs :
    /\ pc[p] = "eo_ret" /\ pc[q] \in EoPcs /\ p /= q
    /\ eo[p].order.side = 2 /\ eo[p].order.order_type = 1
    /\ eo[p].order_id = 2
    /\ RustExecution(eo[p]).slippage = -1
\* C11: under fair scheduling every execute_order call returns: a caller
\* that is inside execute_order, in particular inside one of the two
\* compare-and-retry loops of update_stats, is eventually back at its caller.
C11_EveryCallReturns ==
  \A p \in Procs : (pc[p] \in EoPcs) ~> (pc[p] = "idle")

\* A caller whose compare-exchange failed went round the min loop again and
\* left it with its own latency installed.
C11_Witness ==
  \E p \in Procs :
    /\ pc[p] = "eo_load_max"
    /\ retry[p].fails >= 1
    /\ eo[p].current_min /= U64_MAX
    /\ min_latency_ns[eo[p].engine] = eo[p].latency_ns
    /\ eo[p].latency_ns < eo[p].current_min

\* C12: with no reset_stats called, a get_stats that observes
\* total_executions > 0 reports min_latency_ns <= max_latency_ns, also while
\* execute_order calls are between their counter, min and max updates.
C12_MinNotAboveMaxInFlight ==
  \A p \in Procs :
    (pc[p] = "gs_ret" /\ ~reset_called /\ Stats(p).total_executions > 0)
    => Stats(p).min_latency_ns <= Stats(p).max_latency_ns

\* C13: when benchmark_latency(n), n >= 1, finishes, its engine has gone
\* through 100 warm-up executions, a reset and n measured executions:
\* total_executions is n, the statistics are those of the n recorded
\* latencies alone, and the measured executions carry the ids 101..100+n.
C13_WarmUpDiscarded ==
  \A p \in Procs :
    (pc[p] = "bl_ret" /\ bl[p].iterations >= 1)
    => LET n == bl[p].iterations
           engine == bl[p].engine
       IN /\ bl[p].warm = 100
          /\ engine.total_executions = n
          /\ Len(bl[p].latencies) = n
          /\ engine.total_latency_ns = Sum(bl[p].latencies)
          /\ \E k \in 1..n : engine.min_latency_ns = bl[p].latencies[k]
          /\ \E k \in 1..n : engine.max_latency_ns = bl[p].latencies[k]
          /\ \A k \in 1..n : /\ engine.min_latency_ns <= bl[p].latencies[k]
                              /\ bl[p].latencies[k] <= engine.max_latency_ns
          /\ bl[p].ids = [k \in 1..n |-> 100 + k]
          /\ engine.next_order_id = 101 + n

C13_Witness ==
  \E p \in Procs :
    /\ pc[p] = "bl_ret"
    /\ bl[p].iterations = 2
    /\ bl[p].ids = <<101, 102>>
    /\ bl[p].latencies = <<1, 0>>
    /\ bl[p].engine.total_executions = 2

\* A step of process p inside reset_stats, inside get_stats, and the step
\* with which p enters execute_order.
ResetStatsStep(p) == pc'[p] /= pc[p] /\ (pc[p] \in RsPcs \/ pc'[p] \in RsPcs)
GetStatsStep(p) == pc'[p] /= pc[p] /\ (pc[p] \in GsPcs \/ pc'[p] \in GsPcs)
EnterExecuteOrder(p) == pc[p] = "idle" /\ pc'[p] = "eo_count"

\* C14: no step of reset_stats changes next_order_id, no step of get_stats
\* changes any of the five engine fields, and an execute_order that begins,
\* after however many reset_stats calls, takes an order id larger than every
\* order id returned before.
C14_IdsSurviveReset ==
  [][\A p \in Procs :
       /\ ResetStatsStep(p) => next_order_id' = next_order_id
       /\ GetStatsStep(p) => engineVars' = engineVars
       /\ EnterExecuteOrder(p)
            => \A id \in ObservedIds(eo'[p].engine) : eo'[p].order_id > id]_vars

\* The second order was issued after the first had returned and a
\* reset_stats had run in between; it carries id 2.
C14_Witness ==
  \E p \in Procs :
    /\ pc[p] \in EoPcs
    /\ eo[p].after_reset
    /\ eo[p].order_id = 2
    /\ ObservedIds(eo[p].engine) = {1}

\* C15: as long as reset_stats has not been called, no step makes
\* total_executions or total_latency_ns smaller, min_latency_ns larger or
\* max_latency_ns smaller.
C15_StatsMonotonic ==
  [][~reset_called'
       => \A e \in Engines :
            /\ total_executions'[e] >= total_executions[e]
            /\ total_latency_ns'[e] >= total_latency_ns[e]
            /\ min_latency_ns'[e] <= min_latency_ns[e]
            /\ max_latency_ns'[e] >= max_latency_ns[e]]_vars

\* Two concurrent calls have moved all four fields, the minimum twice: the
\* call measuring 0 found the 1 of the other call in its way.
C15_Witness ==
  /\ ~reset_called
  /\ total_executions[1] = 2
  /\ total_latency_ns[1] = 1
  /\ min_latency_ns[1] = 0
  /\ max_latency_ns[1] = 1
  /\ \E p \in Procs : pc[p] = "eo_load_max" /\ retry[p].fails = 1

\* The engine of the call process p is in, 0 when it is in none, and the
\* five fields of engine e.
EngineOf(p) ==
  IF pc[p] \in EoPcs THEN eo[p].engine
  ELSE IF pc[p] \in GsPcs THEN gs[p].engine
  ELSE IF pc[p] \in RsPcs THEN rs[p].engine
  ELSE 0

Fields(e) ==
  <<next_order_id[e], total_executions[e], total_latency_ns[e],
    min_latency_ns[e], max_latency_ns[e]>>

\* A step of process p in a call on engine e, and a step of p inside
\* benchmark_latency.
StepOn(p, e) == pc'[p] /= pc[p] /\ (EngineOf(p) = e \/ EngineOf(p)' = e)
BenchStep(p) == bl'[p] /= bl[p] \/ (pc'[p] /= pc[p] /\ bl[p] /= NoFrame)

\* C16: a step of execute_order, reset_stats or get_stats on one engine
\* leaves the five fields of every other engine unchanged, a step of
\* benchmark_latency leaves every engine unchanged, and the order-id counter
\* of an engine counts the orders of that engine alone, from 1.
C16_EnginesIsolated ==
  /\ [][\A p \in Procs :
          /\ \A e \in Engines :
               StepOn(p, e) => \A other \in Engines \ {e} : Fields(other)' = Fields(other)
          /\ BenchStep(p) => engineVars' = engineVars]_vars
  /\ [](\A e \in Engines :
          next_order_id[e] = 1 + ObservedCount(e) + Cardinality(InFlightOn(e)))

\* Each engine has handed out its own id 1: the first engine's order has
\* returned and the second engine's order has gone through update_stats.
C16_Witness ==
  /\ ObservedIds(1) = {1}
  /\ next_order_id = (1 :> 2) @@ (2 :> 2)
  /\ Fields(1) = Fields(2)
  /\ \E q \in Procs : pc[q] = "eo_ret" /\ eo[q].engine = 2 /\ eo[q].order_id = 1

\* The step in which the compare-exchange of process p fails, in the min
\* loop and in the max loop.
MinCasFails(p) == pc[p] = "eo_cas_min" /\ retry'[p].fails = retry[p].fails + 1
MaxCasFails(p) == pc[p] = "eo_cas_max" /\ retry'[p].fails = retry[p].fails + 1

\* C17: as long as reset_stats has not been called (and no compare-exchange
\* fails spuriously), a compare-exchange that fails in the min (max) loop
\* hands the caller a value strictly below (above) the one it held, and a
\* caller has never failed more often in a loop than other callers have
\* installed a value in that field since the caller's load.
C17_RetriesFollowInstalls ==
  /\ [][~reset_called
          => \A p \in Procs :
               /\ MinCasFails(p) => eo'[p].current_min < eo[p].current_min
               /\ MaxCasFails(p) => eo'[p].current_max > eo[p].current_max]_vars
  /\ [](~reset_called
          => \A p \in Procs : retry[p].fails <= retry[p].installs)

\* A caller measuring 0 loaded the sentinel, lost its compare-exchange to a
\* caller that installed 1, and is about to try again.
C17_Witness ==
  /\ ~reset_called
  /\ \E p \in Procs :
       /\ pc[p] = "eo_cas_min"
       /\ retry[p] = [fails |-> 1, installs |-> 1]
       /\ eo[p].latency_ns = 0
       /\ eo[p].current_min = 1

====
